---- MODULE Spec2Model ----
(***************************************************************************)
(* A model of otsdb_client.client.Connection: the batched write with       *)
(* chunk retry (put), the query result reshaping (query), the identifier   *)
(* counters (generate_id, generate_filter) and the expression query        *)
(* builder (query_expressions).                                            *)
(*                                                                         *)
(* Python strings are sequences of one-character strings, so that slicing, *)
(* "%d" formatting and string comparison are computed, not assumed.        *)
(* An optional value (Python None) is the empty set, a present value v is  *)
(* the singleton {v}.                                                      *)
(***************************************************************************)
EXTENDS Integers, Naturals, Sequences, FiniteSets, TLC

VARIABLES
    \* ---- Connection state ----
    ids,          \* self.ids: kind name -> counter
    \* ---- one put call ----
    putpc,        \* "idle" | "loop" | "done" | "raised"
    nvalues,      \* len(values)
    ptcl,         \* points per request
    att,          \* attempt ceiling
    verbose,      \* the verbose flag
    pts,          \* the list of pending requests; a request is [id, data]
    response,     \* request id -> x.response: {} (None) or {status_code}
    attempts,     \* the local attempts
    fails,        \* the local fails
    putret,       \* the returned dict, as a set of at most one record
    error,        \* the exception that ended the last call, "" when none
    rounds,       \* history: gr.map calls of this put call
    sent,         \* history: request ids handed to the last gr.map
    outcome,      \* history: what the last gr.map got per request, {} = no response
    okFirst,      \* history: every request of round 1 got a status in [200,300)
    \* ---- the identifier operations, called one after the other ----
    idop,         \* the last operation: "" | "generate_id" | "generate_filter" | "query_expressions"
    idpc,         \* "idle" | "posted" (query_expressions waits for its response)
    idarg,        \* the tid of the last generate_id call
    idret,        \* the string generate_id returned: {} or {string}
    filterret,    \* the dict generate_filter returned: {} or {dict}
    payload,      \* the data query_expressions posted: {} or {dict}
    qeargs,       \* history: the metrics and expr lists of the call that posted payload
    qeret,        \* what query_expressions returned: "" | "False" | "None" | "data"
    iderror,      \* the exception that ended the last of these operations, "" when none
    idsBefore,    \* history: self.ids when the last operation was called
    calls,        \* history: kind -> generate_id calls that returned
    issued,       \* history: the strings generate_id returned
    reissued,     \* history: generate_id returned a string it had returned before
    \* ---- generate_id called from several threads ----
    tpc,          \* thread -> "idle" | "called" | "loaded" | "stored" | "returned" | "raised"
    ttid,         \* thread -> the tid of its call
    treg,         \* thread -> the value it loaded from self.ids[tid]
    tret,         \* thread -> the string its call returned: {} or {string}
    tcalls,       \* history: kind -> calls the threads made that passed the assert
    \* ---- one query call ----
    qpc,          \* "idle" | "posted" | "returned" | "raised"
    qflags,       \* the flags show_summary, show_json, nots, tsd, union of the call
    qresp,        \* the response: {} or {[status_code, text]}
    qresult,      \* the returned value, [kind, val]
    qerror        \* the exception that ended the call, "" when none

putvars == <<putpc, nvalues, ptcl, att, verbose, pts, response, attempts, fails,
             putret, error, rounds, sent, outcome, okFirst>>

idvars == <<idop, idpc, idarg, idret, filterret, payload, qeargs, qeret, iderror,
            idsBefore, calls, issued, reissued>>

threadvars == <<tpc, ttid, treg, tret, tcalls>>

queryvars == <<qpc, qflags, qresp, qresult, qerror>>

vars == <<ids, putvars, idvars, threadvars, queryvars>>

\* ------------------------------------------------------------------ bounds

MaxValues == 3
MaxPtcl == 2
MaxAtt == 2
MaxCount == 2
MaxMetrics == 2
MaxExprs == 1
NThreads == 2
MaxSeries == 2
TsSpan == 1

\* The HTTP statuses a request may get: one inside [200,300), the first one
\* above it, and an error.
Statuses == {200, 300, 404}

Success == 200..299

\* ------------------------------------------------------------------ put

\* Lines 170-201: one point per value, a request per ptcl points and one for
\* the rest. ptl is the list being filled (ptc is its length), k the index of
\* the next value. A point is represented by the index of its value.
RECURSIVE BuildRequests(_, _, _, _, _)
BuildRequests(n, k, c, ptl, reqs) ==
    IF k > n
    THEN IF ptl # <<>>
         THEN Append(reqs, [id |-> Len(reqs) + 1, data |-> ptl])
         ELSE reqs
    ELSE LET ptl2 == Append(ptl, k) IN
         IF Len(ptl2) = c
         THEN BuildRequests(n, k + 1, c, <<>>,
                            Append(reqs, [id |-> Len(reqs) + 1, data |-> ptl2]))
         ELSE BuildRequests(n, k + 1, c, ptl2, reqs)

ReqIds(reqs) == {reqs[i].id : i \in 1..Len(reqs)}

\* Line 212: the test that keeps a request in pts.
KeepPending(status) == ~(200 <= status /\ status <= 300)

\* The loop condition with the ceiling off by one.
LoopCondOffByOne(a, f, ceiling) == a <= ceiling /\ f > 0

\* Line 205: the loop condition.
LoopCond(a, f, ceiling) == a < ceiling /\ f > 0

\* The returned dict with 'success' not reduced by the failures.
OutcomeSuccessNotReduced(n, f) == [points |-> n, success |-> n, failed |-> f]

\* Lines 221-225: the returned dict.
Outcome(n, f) == [points |-> n, success |-> n - f, failed |-> f]

\* Lines 130-204: the call up to the loop.
PutCall(n, c, a, v) ==
    /\ putpc = "idle"
    /\ LET reqs == BuildRequests(n, 1, c, <<>>, <<>>) IN
       /\ pts' = reqs
       /\ response' = [i \in ReqIds(reqs) |-> {}]
       /\ outcome' = [i \in ReqIds(reqs) |-> {}]
    /\ nvalues' = n
    /\ ptcl' = c
    /\ att' = a
    /\ verbose' = v
    /\ attempts' = 0
    /\ fails' = 1
    /\ putret' = {}
    /\ error' = ""
    /\ rounds' = 0
    /\ sent' = {}
    /\ okFirst' = FALSE
    /\ putpc' = "loop"
    /\ UNCHANGED <<ids, idvars, threadvars, queryvars>>

\* gr.map(pts), line 206: every request of pts is sent; a request that gets a
\* response has it stored, a request whose transport fails keeps the response
\* it had (None before its first response).
GrMap(reqs, resp, got) ==
    [i \in DOMAIN resp |->
        IF i \in ReqIds(reqs) /\ got[i] # {} THEN got[i] ELSE resp[i]]

\* Lines 205-214: one pass of the loop body. Reading status_code of a request
\* whose response is None raises AttributeError (line 210 or 212).
PutRound ==
    /\ putpc = "loop"
    /\ LoopCond(attempts, fails, att)
    /\ \E got \in [ReqIds(pts) -> {{}} \cup {{s} : s \in Statuses}] :
        LET resp == GrMap(pts, response, got)
            status(x) == CHOOSE s \in resp[x.id] : TRUE
            left == SelectSeq(pts, LAMBDA x : KeepPending(status(x)))
        IN
        /\ response' = resp
        /\ outcome' = [i \in DOMAIN response |-> IF i \in ReqIds(pts) THEN got[i] ELSE {}]
        /\ sent' = ReqIds(pts)
        /\ rounds' = rounds + 1
        /\ okFirst' = IF rounds = 0
                      THEN \A i \in ReqIds(pts) : got[i] # {} /\ got[i] \subseteq Success
                      ELSE okFirst
        /\ IF \E i \in ReqIds(pts) : resp[i] = {}
           THEN /\ putpc' = "raised"
                /\ error' = "AttributeError"
                /\ UNCHANGED <<pts, attempts, fails>>
           ELSE /\ pts' = left
                /\ attempts' = attempts + 1
                /\ fails' = Len(left)
                /\ UNCHANGED <<putpc, error>>
    /\ UNCHANGED <<ids, nvalues, ptcl, att, verbose, putret, idvars, threadvars, queryvars>>

\* Lines 216-225: the summary line (a division by len(values)) and the return.
PutReturn ==
    /\ putpc = "loop"
    /\ ~LoopCond(attempts, fails, att)
    /\ IF verbose /\ nvalues = 0
       THEN /\ putpc' = "raised"
            /\ error' = "ZeroDivisionError"
            /\ UNCHANGED putret
       ELSE /\ putpc' = "done"
            /\ putret' = {Outcome(nvalues, fails)}
            /\ UNCHANGED error
    /\ UNCHANGED <<ids, nvalues, ptcl, att, verbose, pts, response, attempts, fails,
                   rounds, sent, outcome, okFirst, idvars, threadvars, queryvars>>

\* The call is over: its result is with the caller and its locals are gone.
PutExit ==
    /\ putpc \in {"done", "raised"}
    /\ putpc' = "idle"
    /\ nvalues' = 0
    /\ ptcl' = 1
    /\ att' = 0
    /\ verbose' = FALSE
    /\ pts' = <<>>
    /\ response' = <<>>
    /\ attempts' = 0
    /\ fails' = 0
    /\ putret' = {}
    /\ error' = ""
    /\ rounds' = 0
    /\ sent' = {}
    /\ outcome' = <<>>
    /\ okFirst' = FALSE
    /\ UNCHANGED <<ids, idvars, threadvars, queryvars>>

Put ==
    \E n \in 0..MaxValues, c \in 1..MaxPtcl, a \in 0..MaxAtt, v \in BOOLEAN :
        PutCall(n, c, a, v)

InitPut ==
    /\ putpc = "idle"
    /\ nvalues = 0
    /\ ptcl = 1
    /\ att = 0
    /\ verbose = FALSE
    /\ pts = <<>>
    /\ response = <<>>
    /\ attempts = 0
    /\ fails = 0
    /\ putret = {}
    /\ error = ""
    /\ rounds = 0
    /\ sent = {}
    /\ outcome = <<>>
    /\ okFirst = FALSE


\* ------------------------------------------------------------ identifiers

\* The keys of self.ids (lines 46-48).
Filter == <<"f", "i", "l", "t", "e", "r">>
Metric == <<"m", "e", "t", "r", "i", "c">>
Expression == <<"e", "x", "p", "r", "e", "s", "s", "i", "o", "n">>
Kinds == {Filter, Metric, Expression}

\* Lines 46-48.
InitConnection ==
    ids = [k \in Kinds |-> 0]

\* The tids a caller passes: the keys, the default "" and a name that is no key.
Tids == Kinds \cup {<<>>, <<"t", "a", "g">>}

DigitChars == <<"0", "1", "2", "3", "4", "5", "6", "7", "8", "9">>

\* "%d" % n for n >= 0: the decimal digits of n, most significant first.
RECURSIVE Dec(_)
Dec(n) ==
    IF n < 10 THEN <<DigitChars[n + 1]>>
    ELSE Append(Dec(n \div 10), DigitChars[(n % 10) + 1])

\* The increment lost: the counter is left as it was.
IdsAfterNotStored(d, tid) == d

\* Line 330: self.ids[tid] += 1.
IdsAfter(d, tid) == [d EXCEPT ![tid] = d[tid] + 1]

\* The string formatted from the counter's value before the increment.
IdStringStale(d, tid) == SubSeq(tid, 1, 1) \o Dec(d[tid] - 1)

\* Line 331: "%s%d" % (tid[:1], self.ids[tid]).
IdString(d, tid) == SubSeq(tid, 1, 1) \o Dec(d[tid])

NoArgs == [metrics |-> <<>>, expr |-> <<>>]

\* The history kept of a generate_id call that returned s for tid.
Issue(tid, s) ==
    /\ calls' = [calls EXCEPT ![tid] = calls[tid] + 1]
    /\ issued' = issued \cup {s}
    /\ reissued' = (reissued \/ s \in issued)

\* Lines 327-331, called directly.
GenerateId(tid) ==
    /\ idpc = "idle"
    /\ idop = ""
    /\ idop' = "generate_id"
    /\ idarg' = tid
    /\ idsBefore' = ids
    /\ filterret' = {}
    /\ payload' = {}
    /\ qeret' = ""
    /\ IF tid \notin DOMAIN ids
       THEN /\ iderror' = "AssertionError"
            /\ idret' = {}
            /\ UNCHANGED <<ids, calls, issued, reissued>>
       ELSE /\ ids[tid] < MaxCount
            /\ ids' = IdsAfter(ids, tid)
            /\ idret' = {IdString(ids', tid)}
            /\ iderror' = ""
            /\ Issue(tid, IdString(ids', tid))
    /\ qeargs' = NoArgs
    /\ UNCHANGED <<idpc, putvars, threadvars, queryvars>>

\* Lines 337-348: the dict generate_filter builds around the id it was given.
FilterObj(id, tags, group) ==
    [id |-> id,
     tags |-> [i \in 1..Len(tags) |->
                 [type |-> "wildcard", tagk |-> tags[i], filter |-> "*", groupBy |-> group]]]

\* Lines 333-348, called directly.
GenerateFilter(tags, group) ==
    /\ idpc = "idle"
    /\ idop = ""
    /\ idop' = "generate_filter"
    /\ idsBefore' = ids
    /\ idret' = {}
    /\ payload' = {}
    /\ qeret' = ""
    /\ IF ~(Len(tags) > 0)
       THEN /\ iderror' = "AssertionError"
            /\ filterret' = {}
            /\ UNCHANGED <<ids, calls, issued, reissued>>
       ELSE /\ ids[Filter] < MaxCount
            /\ ids' = IdsAfter(ids, Filter)
            /\ filterret' = {FilterObj(IdString(ids', Filter), tags, group)}
            /\ iderror' = ""
            /\ Issue(Filter, IdString(ids', Filter))
    /\ idarg' = <<>>
    /\ qeargs' = NoArgs
    /\ UNCHANGED <<idpc, putvars, threadvars, queryvars>>

\* self.aggregators, fetched when the Connection is built (line 44).
Aggregators == {"sum", "avg"}

TagLists == {<<>>, <<"host">>, <<"host", "dc">>}

\* The ids a caller writes into its metric and expression dicts.
CallerIds == <<<<"a">>, <<"b">>, <<"c">>, <<"d">>>>

\* A caller's list of n dicts with the keys 'id' and k2, the dict at index
\* lacking (if any) without the key named nokey.
Dicts(n, k2, lacking, nokey) ==
    [i \in 1..n |->
        [id |-> IF i = lacking /\ nokey = "id" THEN {} ELSE {CallerIds[i]},
         other |-> IF i = lacking /\ nokey = k2 THEN {} ELSE {<<k2, i>>}]]

DictLists(max, k2) ==
    {Dicts(n, k2, l, nk) : n \in 0..max, l \in 0..max, nk \in {"id", k2}}

\* Lines 380-393: the asserts. ['id', 'name'] in m.keys() compares a list
\* with each key of the dict (Python 2, as iteritems in query): it is False
\* for every dict, so the two loops reject nothing.
Validates(aggr, metrics, tags, expr) ==
    /\ Len(metrics) >= 1
    /\ Len(tags) > 0
    /\ aggr \in Aggregators
    /\ Len(expr) > 0

HasKeys(list) == \A i \in 1..Len(list) : list[i].id # {} /\ list[i].other # {}

TheOne(S) == CHOOSE x \in S : TRUE

\* Lines 407-412: the id of every metric dict handed on.
PayloadMetrics(metrics, fid) ==
    [i \in 1..Len(metrics) |->
        [id |-> TheOne(metrics[i].id), metric |-> TheOne(metrics[i].other),
         filter |-> fid, fillPolicy |-> "nan"]]

\* Lines 415-418.
PayloadExpressions(expr) ==
    [i \in 1..Len(expr) |->
        [id |-> TheOne(expr[i].id), expr |-> TheOne(expr[i].other)]]

\* Lines 396-401 and 420-432.
Payload(aggr, start, end, metrics, filters, expr) ==
    [time |-> [start |-> start, aggregator |-> aggr, end |-> end],
     metrics |-> PayloadMetrics(metrics, filters.id),
     filters |-> filters,
     expressions |-> PayloadExpressions(expr),
     outputs |-> <<[id |-> <<"e", "2">>, alias |-> "Mega expression"],
                   [id |-> <<"a">>, alias |-> "Test expression"]>>]

\* Lines 350-435: query_expressions up to the request it posts. A dict
\* without the key read at lines 408-409 or 416-417 raises KeyError, after
\* generate_filter has returned.
QueryExpressions(aggr, end, metrics, tags, expr) ==
    /\ idpc = "idle"
    /\ idop = ""
    /\ idop' = "query_expressions"
    /\ idsBefore' = ids
    /\ idret' = {}
    /\ filterret' = {}
    /\ qeret' = ""
    /\ idarg' = <<>>
    /\ IF ~Validates(aggr, metrics, tags, expr)
       THEN /\ iderror' = "AssertionError"
            /\ payload' = {}
            /\ qeargs' = NoArgs
            /\ UNCHANGED <<ids, idpc, calls, issued, reissued>>
       ELSE /\ ids[Filter] < MaxCount
            /\ ids' = IdsAfter(ids, Filter)
            /\ Issue(Filter, IdString(ids', Filter))
            /\ IF HasKeys(metrics) /\ HasKeys(expr)
               THEN /\ payload' = {Payload(aggr, "1d-ago", end, metrics,
                                           FilterObj(IdString(ids', Filter), tags, FALSE),
                                           expr)}
                    /\ qeargs' = [metrics |-> metrics, expr |-> expr]
                    /\ iderror' = ""
                    /\ idpc' = "posted"
               ELSE /\ payload' = {}
                    /\ qeargs' = NoArgs
                    /\ iderror' = "KeyError"
                    /\ UNCHANGED idpc
    /\ UNCHANGED <<putvars, threadvars, queryvars>>

\* Lines 81-89: False for a status outside [200,300), else the decoded text,
\* None when it decodes to something empty; text that is no JSON raises.
ProcessResponse(status, text) ==
    IF ~(200 <= status /\ status < 300) THEN [raised |-> "", val |-> "False"]
    ELSE IF text = "invalid" THEN [raised |-> "ValueError", val |-> ""]
    ELSE IF text = "empty" THEN [raised |-> "", val |-> "None"]
    ELSE [raised |-> "", val |-> "data"]

\* Lines 435-436: the response arrives and is handed to process_response.
QueryExpressionsResponse(status, text) ==
    /\ idpc = "posted"
    /\ idpc' = "idle"
    /\ qeret' = ProcessResponse(status, text).val
    /\ iderror' = ProcessResponse(status, text).raised
    /\ UNCHANGED <<ids, idop, idarg, idret, filterret, payload, qeargs, idsBefore,
                   calls, issued, reissued, putvars, threadvars, queryvars>>

\* The operation is over: its result is with the caller. The Connection
\* keeps self.ids.
IdExit ==
    /\ idpc = "idle"
    /\ idop # ""
    /\ idop' = ""
    /\ idarg' = <<>>
    /\ idret' = {}
    /\ filterret' = {}
    /\ payload' = {}
    /\ qeargs' = NoArgs
    /\ qeret' = ""
    /\ iderror' = ""
    /\ idsBefore' = ids
    /\ UNCHANGED <<ids, idpc, calls, issued, reissued, putvars, threadvars, queryvars>>

InitIdOps ==
    /\ idop = ""
    /\ idpc = "idle"
    /\ idarg = <<>>
    /\ idret = {}
    /\ filterret = {}
    /\ payload = {}
    /\ qeargs = NoArgs
    /\ qeret = ""
    /\ iderror = ""
    /\ idsBefore = [k \in Kinds |-> 0]
    /\ calls = [k \in Kinds |-> 0]
    /\ issued = {}
    /\ reissued = FALSE

NextIds ==
    \/ \E tid \in Tids : GenerateId(tid)
    \/ \E tags \in TagLists, group \in BOOLEAN : GenerateFilter(tags, group)
    \/ \E aggr \in {"sum", "bogus"}, end \in {{}, {"1h-ago"}},
          metrics \in DictLists(MaxMetrics, "name"), tags \in TagLists,
          expr \in DictLists(MaxExprs, "expr") :
            QueryExpressions(aggr, end, metrics, tags, expr)
    \/ \E status \in Statuses, text \in {"invalid", "empty", "data"} :
            QueryExpressionsResponse(status, text)
    \/ IdExit

\* ------------------------------------------------------------------ query

\* The timestamps the server holds points for: 5, 10, ... Their decimal
\* strings are the keys of a 'dps' object and differ in length.
Timestamps == {5 * i : i \in 1..(TsSpan + 1)}

PointValues == {1, 2}

\* The 'dps' objects of a response: key string -> value.
DpsMaps ==
    UNION {[{Dec(t) : t \in T} -> PointValues] : T \in SUBSET Timestamps}

\* An entry of the decoded list: a series (with the key 'metric') or the
\* summary object (without it).
SeriesEntries ==
    {[metric |-> {"cpu"}, tags |-> "host=a", dps |-> d, statsSummary |-> {}] : d \in DpsMaps}

SummaryEntry == [metric |-> {}, tags |-> "", dps |-> <<>>, statsSummary |-> {"timings"}]

SeriesLists(max) == UNION {[1..n -> SeriesEntries] : n \in 0..max}

\* resp.text: text that is no JSON, or the JSON of a list of series with or
\* without the summary object at its end.
Texts(max) ==
    {[json |-> FALSE, data |-> <<>>]}
    \cup {[json |-> TRUE, data |-> l] : l \in SeriesLists(max)}
    \cup {[json |-> TRUE, data |-> Append(l, SummaryEntry)] : l \in SeriesLists(max)}

\* The code point order of two digit characters.
CharCode(c) == CHOOSE i \in 1..Len(DigitChars) : DigitChars[i] = c

\* a < b for Python strings: the first differing character decides, a proper
\* prefix is smaller.
RECURSIVE StrLess(_, _)
StrLess(a, b) ==
    IF b = <<>> THEN FALSE
    ELSE IF a = <<>> THEN TRUE
    ELSE IF Head(a) = Head(b) THEN StrLess(Tail(a), Tail(b))
    ELSE CharCode(Head(a)) < CharCode(Head(b))

\* sorted(dps.items()), lines 295 and 310: the (key, value) pairs in the
\* order of their keys, which are strings.
RECURSIVE SortedItems(_)
SortedItems(dps) ==
    IF DOMAIN dps = {} THEN <<>>
    ELSE LET k == CHOOSE k \in DOMAIN dps :
                      \A j \in DOMAIN dps \ {k} : StrLess(k, j)
         IN <<<<k, dps[k]>>>> \o SortedItems([j \in DOMAIN dps \ {k} |-> dps[j]])

\* float(s) of a string of digits.
RECURSIVE ToNumber(_)
ToNumber(str) ==
    IF str = <<>> THEN 0
    ELSE 10 * ToNumber(SubSeq(str, 1, Len(str) - 1)) + (CharCode(str[Len(str)]) - 1)

\* datetime.fromtimestamp(float(key)), lines 299 and 314.
AsDatetime(key) == [datetime |-> ToNumber(key)]

\* Lines 299-301 and 314-316.
TimestampsOf(points, tsd) ==
    [i \in 1..Len(points) |-> IF tsd THEN AsDatetime(points[i][1]) ELSE points[i][1]]

ValuesOf(points) == [i \in 1..Len(points) |-> points[i][2]]

\* Lines 290-294: the dps of every series merged into one dict, a later
\* series overwriting an earlier one.
RECURSIVE MergeDps(_, _)
MergeDps(data, dpss) ==
    IF data = <<>> THEN dpss
    ELSE LET x == Head(data)
             merged == IF x.metric = {} THEN dpss
                       ELSE [k \in DOMAIN dpss \cup DOMAIN x.dps |->
                                IF k \in DOMAIN x.dps THEN x.dps[k] ELSE dpss[k]]
         IN MergeDps(Tail(data), merged)

\* Lines 295-304.
UnionResults(data, nots, tsd) ==
    LET points == SortedItems(MergeDps(data, <<>>)) IN
    [timestamps |-> IF nots THEN {} ELSE {TimestampsOf(points, tsd)},
     values |-> ValuesOf(points)]

\* Lines 309-318: the record of one series.
Resd(x, nots, tsd) ==
    LET points == SortedItems(x.dps) IN
    [metric |-> x.metric, tags |-> x.tags,
     timestamps |-> IF nots THEN {} ELSE {TimestampsOf(points, tsd)},
     values |-> ValuesOf(points)]

\* Lines 306-319.
SeriesResults(data, nots, tsd) ==
    LET series == SelectSeq(data, LAMBDA x : x.metric # {}) IN
    [i \in 1..Len(series) |-> Resd(series[i], nots, tsd)]

\* The statuses a query may get: also the last one inside [200,300).
QueryStatuses == Statuses \cup {299}

\* Line 282: the test that takes the reshaping branch.
QuerySucceeded(status) == 200 <= status /\ status <= 300

NoResult == [kind |-> "", val |-> <<>>]

\* Lines 282-325: what query makes of the response; raised names the
\* exception when there is one.
QueryResult(status, text, f) ==
    IF ~QuerySucceeded(status)
    THEN [raised |-> "", result |-> [kind |-> "list", val |-> <<>>]]
    ELSE IF f.show_json
    THEN [raised |-> "", result |-> [kind |-> "text", val |-> text]]
    ELSE IF ~text.json
    THEN [raised |-> "ValueError", result |-> NoResult]
    ELSE IF f.show_summary /\ text.data = <<>>
    THEN [raised |-> "IndexError", result |-> NoResult]
    ELSE IF f.show_summary /\ text.data[Len(text.data)].statsSummary = {}
    THEN [raised |-> "KeyError", result |-> NoResult]
    ELSE [raised |-> "",
          result |->
            [kind |-> IF f.union THEN "union" ELSE "series",
             val |->
               [results |-> IF f.union THEN UnionResults(text.data, f.nots, f.tsd)
                            ELSE SeriesResults(text.data, f.nots, f.tsd),
                summary |-> IF f.show_summary
                            THEN text.data[Len(text.data)].statsSummary
                            ELSE {}]]]

Flags == [show_summary : BOOLEAN, show_json : BOOLEAN, nots : BOOLEAN,
          tsd : BOOLEAN, union : BOOLEAN]

\* Lines 227-280: the asserts and the request.
QueryCall(aggr, f) ==
    /\ qpc = "idle"
    /\ qflags' = f
    /\ qresp' = {}
    /\ qresult' = NoResult
    /\ IF aggr \notin Aggregators
       THEN /\ qpc' = "raised"
            /\ qerror' = "AssertionError"
       ELSE /\ qpc' = "posted"
            /\ qerror' = ""
    /\ UNCHANGED <<ids, putvars, idvars, threadvars>>

\* Lines 280-325: the response arrives and is reshaped.
QueryResponse(status, text) ==
    /\ qpc = "posted"
    /\ qresp' = {[status_code |-> status, text |-> text]}
    /\ LET r == QueryResult(status, text, qflags) IN
       /\ qresult' = r.result
       /\ qerror' = r.raised
       /\ qpc' = IF r.raised = "" THEN "returned" ELSE "raised"
    /\ UNCHANGED <<ids, qflags, putvars, idvars, threadvars>>

\* The call is over: its result is with the caller.
QueryExit ==
    /\ qpc \in {"returned", "raised"}
    /\ qpc' = "idle"
    /\ qflags' = [show_summary |-> FALSE, show_json |-> FALSE, nots |-> FALSE,
                  tsd |-> TRUE, union |-> FALSE]
    /\ qresp' = {}
    /\ qresult' = NoResult
    /\ qerror' = ""
    /\ UNCHANGED <<ids, putvars, idvars, threadvars>>

InitQuery ==
    /\ qpc = "idle"
    /\ qflags = [show_summary |-> FALSE, show_json |-> FALSE, nots |-> FALSE,
                 tsd |-> TRUE, union |-> FALSE]
    /\ qresp = {}
    /\ qresult = NoResult
    /\ qerror = ""

\* ------------------------------------------------ generate_id in threads

\* The Connection has no lock: a thread that calls generate_id runs the
\* assert (line 328), then loads self.ids[tid], stores the sum (line 330,
\* two steps another thread can come between), then loads it again to
\* format the string (line 331).
Threads == 1..NThreads

ThreadCall(t, tid) ==
    /\ tpc[t] \in {"idle", "returned", "raised"}
    /\ ttid' = [ttid EXCEPT ![t] = tid]
    /\ tret' = [tret EXCEPT ![t] = {}]
    /\ IF tid \notin DOMAIN ids
       THEN /\ tpc' = [tpc EXCEPT ![t] = "raised"]
            /\ UNCHANGED tcalls
       ELSE /\ tcalls[tid] < MaxCount
            /\ tpc' = [tpc EXCEPT ![t] = "called"]
            /\ tcalls' = [tcalls EXCEPT ![tid] = tcalls[tid] + 1]
    /\ UNCHANGED <<ids, treg, putvars, idvars, queryvars>>

ThreadLoad(t) ==
    /\ tpc[t] = "called"
    /\ treg' = [treg EXCEPT ![t] = ids[ttid[t]]]
    /\ tpc' = [tpc EXCEPT ![t] = "loaded"]
    /\ UNCHANGED <<ids, ttid, tret, tcalls, putvars, idvars, queryvars>>

ThreadStore(t) ==
    /\ tpc[t] = "loaded"
    /\ ids' = [ids EXCEPT ![ttid[t]] = treg[t] + 1]
    /\ tpc' = [tpc EXCEPT ![t] = "stored"]
    /\ UNCHANGED <<ttid, treg, tret, tcalls, putvars, idvars, queryvars>>

ThreadReturn(t) ==
    /\ tpc[t] = "stored"
    /\ tret' = [tret EXCEPT ![t] = {IdString(ids, ttid[t])}]
    /\ tpc' = [tpc EXCEPT ![t] = "returned"]
    /\ UNCHANGED <<ids, ttid, treg, tcalls, putvars, idvars, queryvars>>

InitThreads ==
    /\ tpc = [t \in Threads |-> "idle"]
    /\ ttid = [t \in Threads |-> <<>>]
    /\ treg = [t \in Threads |-> 0]
    /\ tret = [t \in Threads |-> {}]
    /\ tcalls = [k \in Kinds |-> 0]

\* ------------------------------------------------------------ specifications

Init ==
    /\ InitConnection
    /\ InitPut
    /\ InitIdOps
    /\ InitThreads
    /\ InitQuery

NextPut ==
    \/ Put
    \/ PutRound
    \/ PutReturn
    \/ PutExit

SpecPut == Init /\ [][NextPut]_vars

\* gr.map returns once every request of the round has ended, and the
\* statements after the loop run: the loop body and the return are taken.
FairPut == SpecPut /\ WF_vars(PutRound) /\ WF_vars(PutReturn)

SpecIds == Init /\ [][NextIds]_vars

NextThreads ==
    \/ \E t \in Threads, tid \in Tids : ThreadCall(t, tid)
    \/ \E t \in Threads : ThreadLoad(t)
    \/ \E t \in Threads : ThreadStore(t)
    \/ \E t \in Threads : ThreadReturn(t)

SpecThreads == Init /\ [][NextThreads]_vars

NextQuery ==
    \/ \E aggr \in {"sum", "bogus"}, f \in Flags : QueryCall(aggr, f)
    \/ \E status \in QueryStatuses, text \in Texts(MaxSeries) : QueryResponse(status, text)
    \/ QueryExit

SpecQuery == Init /\ [][NextQuery]_vars

\* ------------------------------------------------------------ put: claims

\* The points held by the requests of a list.
RECURSIVE PointsOf(_)
PointsOf(reqs) ==
    IF reqs = <<>> THEN 0 ELSE Len(Head(reqs).data) + PointsOf(Tail(reqs))


C7_Counters ==
    /\ \A k \in Kinds : ids[k] = calls[k]
    /\ idop = "generate_id" /\ idarg \in Kinds =>
        /\ ids = [idsBefore EXCEPT ![idarg] = idsBefore[idarg] + 1]
        /\ calls[idarg] < 10 => idret = {<<idarg[1], DigitChars[calls[idarg] + 1]>>}
    /\ idop = "generate_id" /\ idarg \notin Kinds =>
        /\ iderror = "AssertionError"
        /\ idret = {}
        /\ ids = idsBefore

C7_Step ==
    \A k \in Kinds : ids'[k] = ids[k] \/ ids'[k] = ids[k] + 1

\* C7: calls made one after the other: the k-th generate_id call for a kind
\* returns the kind's first letter followed by k; a call for another kind, or
\* a rejected call, leaves a kind's counter as it was; a counter starts at 0,
\* moves only up by 1 and is never reset.
C7_KthCallReturnsLetterK ==
    /\ (\A k \in Kinds : ids[k] = 0)
    /\ []C7_Counters
    /\ [][C7_Step]_vars

\* C7's case: the second filter id, after a metric id was generated.
C7_Witness ==
    /\ idop = "generate_id"
    /\ idarg = Filter
    /\ idret = {<<"f", "2">>}
    /\ ids[Metric] = 1

\* C9 as stated: a query_expressions call that posted its payload generated
\* an id for every metric and every expression, the payload carries those
\* ids, and the metric and expression counters advanced by their numbers.
C9_FreshIdForEveryMetricAndExpression ==
    idop = "query_expressions" /\ payload # {} =>
        \A p \in payload :
            /\ ids[Metric] = idsBefore[Metric] + Len(p.metrics)
            /\ ids[Expression] = idsBefore[Expression] + Len(p.expressions)
            /\ \A i \in 1..Len(p.metrics) : p.metrics[i].id \in issued
            /\ \A i \in 1..Len(p.expressions) : p.expressions[i].id \in issued

\* C9, amended: a query_expressions call that passes the asserts generates
\* exactly one id, a filter id: the filter counter advances by one and the
\* metric and expression counters do not move. The payload it posts carries
\* that new filter id, every metric refers to it, and the metric and
\* expression ids are the ones the caller supplied, in order. No generated id
\* is issued twice.
C9_FreshFilterIdCallerIds ==
    /\ ~reissued
    /\ idop = "query_expressions" /\ iderror # "AssertionError" =>
        /\ ids = [idsBefore EXCEPT ![Filter] = idsBefore[Filter] + 1]
        /\ <<"f", DigitChars[ids[Filter] + 1]>> \in issued
    /\ idop = "query_expressions" /\ payload # {} =>
        \A p \in payload :
            /\ ids[Filter] < 10 => p.filters.id = <<"f", DigitChars[ids[Filter] + 1]>>
            /\ Len(p.metrics) = Len(qeargs.metrics)
            /\ Len(p.expressions) = Len(qeargs.expr)
            /\ \A i \in 1..Len(p.metrics) :
                /\ qeargs.metrics[i].id = {p.metrics[i].id}
                /\ p.metrics[i].filter = p.filters.id
            /\ \A i \in 1..Len(p.expressions) :
                qeargs.expr[i].id = {p.expressions[i].id}

\* C9's case: the second call that posted a payload, with two metrics.
C9_Witness ==
    /\ idop = "query_expressions"
    /\ idpc = "posted"
    /\ ids[Filter] = 2
    /\ \E p \in payload : Len(p.metrics) = 2 /\ Len(p.expressions) = 1

\* C10: generate_id called from several threads: two calls for one kind never
\* return the same string, and once no call is under way a counter equals the
\* number of calls made for its kind.
C10_ConcurrentIdsDistinct ==
    /\ \A t1, t2 \in Threads :
        t1 # t2 /\ tpc[t1] = "returned" /\ tpc[t2] = "returned" /\ ttid[t1] = ttid[t2]
            => tret[t1] # tret[t2]
    /\ (\A t \in Threads : tpc[t] \in {"idle", "returned", "raised"})
            => \A k \in Kinds : ids[k] = tcalls[k]

\* The series of a decoded list, in order.
SeriesOf(data) == SelectSeq(data, LAMBDA x : x.metric # {})

\* C5: query with union, nots, tsd and show_json off: every record lists its
\* timestamps in ascending order of their value, values[i] being the
\* datapoint at timestamps[i].
C5_TimestampsAscending ==
    qpc = "returned" /\ qresult.kind = "series" /\ ~qflags.nots /\ ~qflags.tsd =>
        \A r \in qresp :
            LET series == SeriesOf(r.text.data)
                recs == qresult.val.results
            IN
            /\ Len(recs) = Len(series)
            /\ \A j \in 1..Len(recs) : \A ts \in recs[j].timestamps :
                /\ Len(ts) = Cardinality(DOMAIN series[j].dps)
                /\ Len(recs[j].values) = Len(ts)
                /\ \A i \in 1..Len(ts) : recs[j].values[i] = series[j].dps[ts[i]]
                /\ \A i \in 1..(Len(ts) - 1) : ToNumber(ts[i]) < ToNumber(ts[i + 1])

\* C6: a query whose response has a status outside [200,300) returns the
\* empty list and raises nothing, whatever the text and the flags.
C6_Non2xxGivesEmptyList ==
    \A r \in qresp :
        r.status_code \notin Success =>
            /\ qpc = "returned"
            /\ qerror = ""
            /\ qresult.kind = "list"
            /\ qresult.val = <<>>

\* C1: when put returns, 'failed' is the number of points in the requests
\* still pending when the loop ended, and 'success' is the number of values
\* minus that number.
C1_FailedCountsPendingPoints ==
    putpc = "done" /\ nvalues >= 1 /\ att >= 1 =>
        \A r \in putret :
            /\ r.failed = PointsOf(pts)
            /\ r.success = nvalues - PointsOf(pts)

\* C2: when put returns, success + failed = points, and points is the number
\* of values submitted.
C2_OutcomeAddsUp ==
    putpc = "done" =>
        /\ putret # {}
        /\ \A r \in putret : r.success + r.failed = r.points /\ r.points = nvalues

\* C2's case: a call that returned after some of its requests failed for good.
C2_Witness ==
    /\ putpc = "done"
    /\ nvalues >= 3
    /\ rounds >= 2
    /\ \E r \in putret : r.failed > 0 /\ r.success > 0

C3_Bounded ==
    /\ rounds <= att
    /\ putpc = "loop" /\ pts = <<>> /\ rounds >= 1 => ~ENABLED PutRound
    /\ putpc = "done" => pts = <<>> \/ rounds = att
    /\ okFirst => /\ rounds = 1
                  /\ putpc = "done" => \A r \in putret : r.failed = 0

\* C3: rounds are dispatched until no request is pending or att rounds have
\* run: never more than att rounds, no round after the pending list emptied,
\* no return while requests are pending and rounds are left, one round and
\* failed = 0 when every request succeeds in round 1; and the loop ends.
C3_RetryLoopBounded ==
    /\ []C3_Bounded
    /\ (putpc = "loop") ~> (putpc \in {"done", "raised"})

\* C3's case: the ceiling, not an empty pending list, ended the loop.
C3_Witness ==
    /\ putpc = "done"
    /\ att >= 2
    /\ rounds = att
    /\ pts # <<>>

\* C4: after a round, the pending list holds exactly the requests of that
\* round whose status was outside [200,300).
C4_PendingIsNon2xx ==
    putpc \in {"loop", "done"} /\ rounds >= 1 =>
        ReqIds(pts) = {i \in sent : \E s \in response[i] : s \notin Success}

\* C8: a request that got no response at all in a round stays pending, and
\* the call is not ended by an error.
C8_TransportFailureAbsorbed ==
    \A i \in sent :
        outcome[i] = {} => error = "" /\ i \in ReqIds(pts)

====
